---- MODULE Spec2Model ----
(***************************************************************************)
(* Model of the snap-serve batch image pipeline:                           *)
(*   handlers/image-filters.go  (ApplyFilterToImage and its fan-out        *)
(*                               routines, loadImage, parseFilters)        *)
(*   handlers/image-handler.go  (UploadMultipleImages, the uploader and    *)
(*                               the metadata store access)                *)
(* A behaviour serves one request.  Every fan-out routine is modelled at    *)
(* goroutine granularity: the spawn loop, one worker per item, the closer  *)
(* goroutine (wg.Wait; close) and the collector loop of the caller.        *)
(***************************************************************************)
EXTENDS Integers, Sequences, FiniteSets, Bags, TLC

\* ------------------------------------------------------------------ bounds
MaxItems == 2        \* longest list of URLs / files of one request
MaxParamLen == 3     \* longest parameter string drawn from ParamChars
MaxKeys == 2         \* most keys of a query mapping with more than one key
MaxUserID == 57      \* largest ID of a user record

\* --------------------------------------------------------------- constants
MaxImageWidth == 4000
MaxImageHeight == 4000
MaxBlurRadius == 50
MaxBrightness == 100
MaxContrast == 100
MaxSaturation == 200
MaxPixelate == 50

VARIABLES
  pc,                \* position of the request handler
  kind,              \* "none" | "filter" | "multi": the handler serving
  total,             \* number of input items of the batch (len(cleanImageUrls) / len(files))
  userId,            \* result of CheckUserLoggedIn
  session,           \* the JWT the client presents: its token.User.ID, and the user record
                     \* Login issued it for (0 when Login did not issue it)
  query,             \* c.Queries() of the request
  filters,           \* result of parseFilters
  stage,             \* the fan-out routine running: load/process/encode/upload/uploadMulti/save
  input,             \* the slice the routine ranges over
  spawned,           \* loop index of the spawn loop: items 1..spawned are done with
  wst,               \* per input index: state of its worker goroutine
  wg,                \* sync.WaitGroup counter
  ch,                \* the buffered result channel (FIFO)
  closed,            \* the channel has been closed
  closer,            \* the goroutine func(){ wg.Wait(); close(ch) }
  results,           \* the slice the collector loop appends to
  rpc,               \* position of the routine: "none" | "loop" | "collect" | "returned"
  successfulUploads, \* handler local
  uploadErrors,      \* handler local of UploadMultipleImages
  response,          \* what the handler sent to the caller
  db,                \* metadata store: the bag of rows of the images table
  bucket,            \* object store: set of [path, content]
  now,               \* wall clock (time.Now().UnixNano())
  fate,              \* history: per item, the stage it failed at ("ok" so far otherwise)
  fetched,           \* history: URLs http.Get was issued for in this request
  inserts,           \* history: per item, the metadata inserts attempted for it
  started            \* history: stages whose routine spawned a worker in this request

vars == <<pc, kind, total, userId, session, query, filters, stage, input, spawned, wst, wg,
          ch, closed, closer, results, rpc, successfulUploads, uploadErrors, response,
          db, bucket, now, fate, fetched, inserts, started>>

handler == <<pc, kind, total, userId, session, query, filters, successfulUploads, uploadErrors,
             response>>
frame == <<stage, input, spawned, wst, wg, ch, closed, closer, results, rpc>>
world == <<db, bucket, now>>
history == <<fate, fetched, inserts, started>>

Nil == "nil"

\* ------------------------------------------------------------ data shapes
\* A URL / object path: timestamp token, base name, index suffix.
MkURL(ts, base, idx) == [ts |-> ts, base |-> base, idx |-> idx]
EmptyURL == MkURL(-1, "", -1)                 \* the empty string
KnownURL == MkURL(0, "cat.jpg", -1)           \* uploaded earlier through UploadImage
OtherKnownURL == MkURL(0, "dog.jpg", -1)      \* uploaded earlier through UploadImage
ForeignURL == MkURL(-2, "example.org/x.jpg", -1)  \* never uploaded through this system

InputURLs == {EmptyURL, KnownURL, ForeignURL}
FileNames == {"a.png", "b.png"}

Object(base, idx) == [base |-> base, idx |-> idx]
NoObject == Object("", -1)
URLOf(ts, obj) == MkURL(ts, obj.base, obj.idx)

\* A row of the images table.  The auto-increment primary key keeps two rows of the
\* same content apart: the table is a bag of rows.
Row(uid, filename, url) ==
  [UserID |-> uid, Filename |-> filename, OriginalURL |-> url, Status |-> "completed"]

SeqsUpTo(S, n) == UNION {[1..k -> S] : k \in 0..n}

\* ------------------------------------------------- strconv on char sequences
\* A string parameter is a sequence of one-character strings.
DigitChars == {"0", "1", "2", "3", "4", "5", "6", "7", "8", "9"}

DigitVal(c) ==
  CASE c = "0" -> 0 [] c = "1" -> 1 [] c = "2" -> 2 [] c = "3" -> 3 [] c = "4" -> 4
    [] c = "5" -> 5 [] c = "6" -> 6 [] c = "7" -> 7 [] c = "8" -> 8 [] c = "9" -> 9

AllDigits(s) == \A i \in 1..Len(s) : s[i] \in DigitChars

RECURSIVE DecVal(_)
DecVal(s) == IF s = <<>> THEN 0 ELSE 10 * DecVal(SubSeq(s, 1, Len(s) - 1)) + DigitVal(s[Len(s)])

Pow10(k) == CASE k = 0 -> 1 [] k = 1 -> 10 [] k = 2 -> 100 [] OTHER -> 1000

HasSign(s) == s # <<>> /\ s[1] \in {"+", "-"}
Unsigned(s) == IF HasSign(s) THEN Tail(s) ELSE s
SignOf(s) == IF s # <<>> /\ s[1] = "-" THEN -1 ELSE 1

\* strconv.Atoi: an optional sign, then one or more decimal digits.
Atoi(s) ==
  LET d == Unsigned(s)
  IN IF d # <<>> /\ AllDigits(d)
       THEN [ok |-> TRUE, val |-> SignOf(s) * DecVal(d)]
       ELSE [ok |-> FALSE, val |-> 0]

\* strconv.ParseUint(s, 10, 32): digits only, no sign, value below 2^32 = 65536 * 65536.
ParseUint(s) ==
  IF s # <<>> /\ AllDigits(s) /\ DecVal(s) \div 65536 < 65536
    THEN [ok |-> TRUE, val |-> DecVal(s)]
    ELSE [ok |-> FALSE, val |-> 0]

Lower(c) == CASE c = "N" -> "n" [] c = "A" -> "a" [] OTHER -> c

IndexOf(s, c) ==
  IF \E i \in 1..Len(s) : s[i] = c THEN CHOOSE i \in 1..Len(s) : s[i] = c /\ \A j \in 1..(i - 1) : s[j] # c
  ELSE 0

\* strconv.ParseFloat(s, 32) on the decimal forms the model feeds it: "nan" in any
\* case, or an optional sign, digits with at most one point and at least one digit.
\* The value is kept in thousandths (milli); at most three fraction digits occur,
\* where rounding to float32 keeps every comparison with the range limits.
ParseFloat(s) ==
  LET d == Unsigned(s)
      p == IndexOf(d, ".")
      ip == IF p = 0 THEN d ELSE SubSeq(d, 1, p - 1)
      fp == IF p = 0 THEN <<>> ELSE SubSeq(d, p + 1, Len(d))
  IN IF Len(s) = 3 /\ [i \in 1..3 |-> Lower(s[i])] = <<"n", "a", "n">>
       THEN [ok |-> TRUE, nan |-> TRUE, milli |-> 0]
     ELSE IF AllDigits(ip) /\ AllDigits(fp) /\ Len(ip) + Len(fp) > 0 /\ Len(fp) <= 3
       THEN [ok |-> TRUE, nan |-> FALSE,
             milli |-> SignOf(s) * (DecVal(ip) * 1000 + DecVal(fp) * Pow10(3 - Len(fp)))]
     ELSE [ok |-> FALSE, nan |-> FALSE, milli |-> 0]

\* strings.Split(s, "x")
RECURSIVE Split(_)
Split(s) ==
  LET p == IndexOf(s, "x")
  IN IF p = 0 THEN <<s>> ELSE <<SubSeq(s, 1, p - 1)>> \o Split(SubSeq(s, p + 1, Len(s)))

\* ------------------------------------------------------- filter resolution
supportedFilters ==
  {"resize", "crop_to_size", "rotate", "brightness_increase", "brightness_decrease",
   "contrast_increase", "contrast_decrease", "saturation_increase", "saturation_decrease",
   "gaussian_blur", "pixelate", "grayscale", "invert"}

\* An error value: a FilterError carries the filter's name; a plain error (fmt.Errorf)
\* has the empty name.
FilterError(name, msg) == [FilterName |-> name, Message |-> msg]
Err(e) == [err |-> e]

\* err.Error(): "filter '<name>': <message>" for a FilterError, the message otherwise.
ErrorText(e) == IF e.FilterName = "" THEN e.Message ELSE <<"filter", e.FilterName>> \o e.Message
IsErr(r) == "err" \in DOMAIN r

\* A gift filter: the operation and its (integer or milli) parameters.
Gift(op, a, b, nan) == [op |-> op, a |-> a, b |-> b, nan |-> nan]

\* Faulty variant: zero is rejected as well.
parseIntParamNoZero(param, paramName) ==
  IF param = <<>> THEN Err(<<paramName, "parameter is required">>)
  ELSE IF ~Atoi(param).ok THEN Err(<<paramName, "must be an integer">>)
  ELSE IF Atoi(param).val <= 0 THEN Err(<<paramName, "must be positive">>)
  ELSE [val |-> Atoi(param).val]

parseIntParam(param, paramName) ==
  IF param = <<>> THEN Err(<<paramName, "parameter is required">>)
  ELSE IF ~Atoi(param).ok THEN Err(<<paramName, "must be an integer">>)
  ELSE IF Atoi(param).val < 0 THEN Err(<<paramName, "must be positive">>)
  ELSE [val |-> Atoi(param).val]

\* min and max are given in thousandths.  A NaN compares false with both limits.
parseFloatParam(param, paramName, min, max) ==
  LET f == ParseFloat(param)
  IN IF param = <<>> THEN Err(<<paramName, "parameter is required">>)
     ELSE IF ~f.ok THEN Err(<<paramName, "must be a number">>)
     ELSE IF ~f.nan /\ (f.milli < min \/ f.milli > max) THEN Err(<<paramName, "must be between">>)
     ELSE [val |-> f.milli, nan |-> f.nan]

\* Faulty variant: the maximum itself is rejected.
parseDimensionsBelowMax(param, filterName) ==
  LET parts == Split(param)
      width == parseIntParam(parts[1], "width")
      height == parseIntParam(parts[2], "height")
  IN IF param = <<>> THEN Err(FilterError(filterName, <<"dimensions parameter is required">>))
     ELSE IF Len(parts) # 2
       THEN Err(FilterError(filterName, <<"dimensions must be in format 'widthxheight'">>))
     ELSE IF IsErr(width) THEN Err(FilterError(filterName, width.err))
     ELSE IF IsErr(height) THEN Err(FilterError(filterName, height.err))
     ELSE IF width.val >= MaxImageWidth \/ height.val >= MaxImageHeight
       THEN Err(FilterError(filterName, <<"dimensions too large">>))
     ELSE [width |-> width.val, height |-> height.val]

parseDimensions(param, filterName) ==
  LET parts == Split(param)
      width == parseIntParam(parts[1], "width")
      height == parseIntParam(parts[2], "height")
  IN IF param = <<>> THEN Err(FilterError(filterName, <<"dimensions parameter is required">>))
     ELSE IF Len(parts) # 2
       THEN Err(FilterError(filterName, <<"dimensions must be in format 'widthxheight'">>))
     ELSE IF IsErr(width) THEN Err(FilterError(filterName, width.err))
     ELSE IF IsErr(height) THEN Err(FilterError(filterName, height.err))
     ELSE IF width.val > MaxImageWidth \/ height.val > MaxImageHeight
       THEN Err(FilterError(filterName, <<"dimensions too large">>))
     ELSE [width |-> width.val, height |-> height.val]

\* The switch of createFilter, as tables: the filters built from dimensions, from a
\* float in a range, and without a parameter; pixelate is the one integer filter.
DimFilters == {"resize", "crop_to_size"}
FloatFilters ==
  {"rotate", "brightness_increase", "brightness_decrease", "contrast_increase",
   "contrast_decrease", "saturation_increase", "saturation_decrease", "gaussian_blur"}

\* gift constructor called for the filter name
GiftOp(filterName) ==
  CASE filterName = "resize" -> "Resize"
    [] filterName = "crop_to_size" -> "CropToSize"
    [] filterName = "rotate" -> "Rotate"
    [] filterName \in {"brightness_increase", "brightness_decrease"} -> "Brightness"
    [] filterName \in {"contrast_increase", "contrast_decrease"} -> "Contrast"
    [] filterName \in {"saturation_increase", "saturation_decrease"} -> "Saturation"
    [] filterName = "gaussian_blur" -> "GaussianBlur"
    [] filterName = "pixelate" -> "Pixelate"
    [] filterName = "grayscale" -> "Grayscale"
    [] OTHER -> "Invert"

\* paramName, min and max (in thousandths) passed to parseFloatParam
FloatParamName(filterName) ==
  CASE filterName = "rotate" -> "rotation angle"
    [] filterName \in {"brightness_increase", "brightness_decrease"} -> "brightness"
    [] filterName \in {"contrast_increase", "contrast_decrease"} -> "contrast"
    [] filterName \in {"saturation_increase", "saturation_decrease"} -> "saturation"
    [] OTHER -> "blur radius"

FloatMin(filterName) ==
  CASE filterName = "rotate" -> -360000
    [] filterName = "gaussian_blur" -> 100
    [] OTHER -> 0

FloatMax(filterName) ==
  CASE filterName = "rotate" -> 360000
    [] filterName \in {"brightness_increase", "brightness_decrease"} -> MaxBrightness * 1000
    [] filterName \in {"contrast_increase", "contrast_decrease"} -> MaxContrast * 1000
    [] filterName \in {"saturation_increase", "saturation_decrease"} -> MaxSaturation * 1000
    [] OTHER -> MaxBlurRadius * 1000

\* Faulty variant: the _decrease keys pass the value unchanged.
GiftSignAlwaysPlus(filterName) == 1

\* the _decrease keys pass -value to the constructor
GiftSign(filterName) ==
  IF filterName \in {"brightness_decrease", "contrast_decrease", "saturation_decrease"} THEN -1 ELSE 1

createFilter(filterName, param) ==
  LET d == parseDimensions(param, filterName)
      v == parseFloatParam(param, FloatParamName(filterName), FloatMin(filterName),
                           FloatMax(filterName))
      n == parseIntParam(param, "pixelate size")
  IN CASE filterName \in DimFilters ->
            IF IsErr(d) THEN d ELSE [filter |-> Gift(GiftOp(filterName), d.width, d.height, FALSE)]
       [] filterName \in FloatFilters ->
            IF IsErr(v) THEN Err(FilterError(filterName, v.err))
            ELSE [filter |-> Gift(GiftOp(filterName), GiftSign(filterName) * v.val, 0, v.nan)]
       [] filterName = "pixelate" ->
            IF IsErr(n) THEN Err(FilterError(filterName, n.err))
            ELSE IF n.val > MaxPixelate
              THEN Err(FilterError(filterName, <<"pixelate size too large (max 50)">>))
            ELSE [filter |-> Gift(GiftOp(filterName), n.val, 0, FALSE)]
       [] filterName \in {"grayscale", "invert"} ->
            [filter |-> Gift(GiftOp(filterName), 0, 0, FALSE)]
       [] OTHER -> Err(FilterError(filterName, <<"unsupported filter">>))

\* The orders in which a range over the map may visit its keys.
Orders(S) == {o \in [1..Cardinality(S) -> S] : \A i, j \in 1..Cardinality(S) : o[i] = o[j] => i = j}

\* Faulty variant: no key is skipped.
IsSupportedAlways(filterName) == TRUE

IsSupported(filterName) == filterName \in supportedFilters

\* Faulty variant: an empty pipeline is returned.
parseFiltersAllowsEmpty(queryParams, order) ==
  LET visited == SelectSeq(order, IsSupported)
      made == [i \in 1..Len(visited) |-> createFilter(visited[i], queryParams[visited[i]])]
      bad == {i \in 1..Len(visited) : IsErr(made[i])}
  IN IF bad # {} THEN made[CHOOSE i \in bad : \A j \in bad : i <= j]
     ELSE [filters |-> [i \in 1..Len(visited) |-> made[i].filter]]

\* Faulty variant: each filter replaces the pipeline instead of being appended.
parseFiltersKeepsLast(queryParams, order) ==
  LET visited == SelectSeq(order, IsSupported)
      made == [i \in 1..Len(visited) |-> createFilter(visited[i], queryParams[visited[i]])]
      bad == {i \in 1..Len(visited) : IsErr(made[i])}
  IN IF bad # {} THEN made[CHOOSE i \in bad : \A j \in bad : i <= j]
     ELSE IF Len(visited) = 0 THEN Err(FilterError("", <<"no valid filters specified">>))
     ELSE [filters |-> <<made[Len(visited)].filter>>]

\* parseFilters when the range visits the keys in the order `order`: unknown keys are
\* skipped; the loop returns the error of the first visited key whose createFilter
\* fails; otherwise the filters are appended in the order visited, and an empty
\* result is an error.
parseFilters(queryParams, order) ==
  LET visited == SelectSeq(order, IsSupported)
      made == [i \in 1..Len(visited) |-> createFilter(visited[i], queryParams[visited[i]])]
      bad == {i \in 1..Len(visited) : IsErr(made[i])}
  IN IF bad # {} THEN made[CHOOSE i \in bad : \A j \in bad : i <= j]
     ELSE IF Len(visited) = 0 THEN Err(FilterError("", <<"no valid filters specified">>))
     ELSE [filters |-> [i \in 1..Len(visited) |-> made[i].filter]]

\* ------------------------------------------------------------ request inputs
TokenIDs == {<<"7">>, <<"u", "7">>}            \* token.User.ID found in c.Locals("user")

\* The tokens a client may present without a login in the model, and no token.
Sessions == {[user |-> 0, token |-> t] : t \in TokenIDs}
NoSession == [user |-> 0, token |-> <<>>]

Bodies ==
  {[ok |-> FALSE, urls |-> <<>>]} \cup {[ok |-> TRUE, urls |-> u] : u \in SeqsUpTo(InputURLs, MaxItems)}

\* File names matter only through their equality: the first file is named "a.png".
Forms ==
  {[ok |-> FALSE, files |-> <<>>]} \cup
  {[ok |-> TRUE, files |-> f] : f \in {g \in SeqsUpTo(FileNames, MaxItems) : g = <<>> \/ g[1] = "a.png"}}

Queries ==
  {
    [k \in {"pixelate", "invert"} |-> IF k = "pixelate" THEN <<"5">> ELSE <<>>],
    [k \in {"resize"} |-> <<"8", "0", "0">>],
    [k \in {"format"} |-> <<"1">>] }

\* string(rune(id)): the one character with the code point id.  The digits and the
\* signs are told apart; "?" stands for any other character, none of which is a digit.
RuneString(id) ==
  CASE id = 43 -> "+" [] id = 45 -> "-" [] id = 46 -> "."
    [] id = 48 -> "0" [] id = 49 -> "1" [] id = 50 -> "2" [] id = 51 -> "3" [] id = 52 -> "4"
    [] id = 53 -> "5" [] id = 54 -> "6" [] id = 55 -> "7" [] id = 56 -> "8" [] id = 57 -> "9"
    [] OTHER -> "?"

\* token.User.ID written by Login: "user_" + string(rune(userModel.ID))
LoginTokenID(id) == <<"u", "s", "e", "r", "_", RuneString(id)>>

CheckUserLoggedIn(tokenID) ==
  LET r == ParseUint(tokenID) IN [userID |-> r.val, err |-> IF r.ok THEN Nil ELSE "strconv.ParseUint"]

\* ------------------------------------------------------------ values in flight
Image(id, url, applied, encoded) == [id |-> id, url |-> url, applied |-> applied, encoded |-> encoded]
NilImage == Image(0, EmptyURL, <<>>, FALSE)
\* Faulty variant: a nil image is not recognised.
IsNilImageNever(img) == FALSE

IsNilImage(img) == img.id = 0

UploadResult(url, filename, error, id) == [URL |-> url, Filename |-> filename, Error |-> error, id |-> id]
SaveResult(error, id) == [Error |-> error, id |-> id]

Resp(code, status, message) ==
  [code |-> code, status |-> status, message |-> message, hasData |-> FALSE, data |-> <<>>,
   success_count |-> -1, total_count |-> -1, hasErrors |-> FALSE, errors |-> <<>>]
NoResponse == Resp(0, "", <<>>)

\* ------------------------------------------------------------ external calls
\* GetImageFromDB: the first row whose original_url is the URL, else "image not found";
\* any other failure of the query is returned as it is.
GetImageFromDB(url, dbFails) ==
  IF dbFails THEN "db error"
  ELSE IF \E r \in BagToSet(db) : r.OriginalURL = url THEN Nil ELSE "image not found"

\* Faulty variant: the lookup's error is dropped.
validateURLDropsError(imageURL, dbFails) == Nil

validateURL(imageURL, dbFails) == GetImageFromDB(imageURL, dbFails)

\* What the network and the codec may answer to loadImage's http.Get and image.Decode.
FetchOutcomes == {"ok", "transport error", "status", "content type", "decode", "too large", "stall"}
StoreOutcomes == {"ok", "error", "stall"}

\* http.Get uses http.DefaultClient, which has no timeout; the uploader's writer runs
\* under context.WithTimeout(50 s).
FetchHasDeadline == FALSE
UploadHasDeadline == TRUE

FetchStage(o) == IF o \in {"decode", "too large"} THEN "decode" ELSE "fetch"

\* ------------------------------------------------------------ the fan-out frame
StartRoutine(st, in) ==
  /\ stage' = st
  /\ input' = in
  /\ spawned' = 0
  /\ wst' = [i \in 1..Len(in) |-> "none"]
  /\ wg' = 0
  /\ ch' = <<>>
  /\ closed' = FALSE
  /\ closer' = "none"
  /\ results' = <<>>
  /\ rpc' = "loop"

\* make(chan T, len(input))
ChanCap == Len(input)

\* Faulty variant: no result is skipped.
SpawnsWorkerForAll(st, x) == TRUE

\* routineSaveImageRecords skips the results that carry an error; the other routines
\* start a worker for every element.
SpawnsWorker(st, x) == st # "save" \/ x.Error = Nil

\* One iteration of the spawn loop: wg.Add(1); go func(...){...}(item)
Spawn ==
  /\ rpc = "loop" /\ spawned < Len(input)
  /\ spawned' = spawned + 1
  /\ IF SpawnsWorker(stage, input[spawned + 1])
       THEN /\ wg' = wg + 1
            /\ wst' = [wst EXCEPT ![spawned + 1] = "running"]
            /\ started' = started \cup {stage}
       ELSE UNCHANGED <<wg, wst, started>>
  /\ UNCHANGED <<handler, stage, input, ch, closed, closer, results, rpc, world, fate, fetched,
                 inserts>>

\* Faulty variant: the goroutine that waits and closes the channel is not started.
StartCloserMissing ==
  /\ rpc = "loop" /\ spawned = Len(input)
  /\ rpc' = "collect"
  /\ UNCHANGED <<handler, stage, input, spawned, wst, wg, ch, closed, closer, results, world,
                 history>>

\* After the loop: go func(){ wg.Wait(); close(ch) }(), then the collector loop starts.
StartCloser ==
  /\ rpc = "loop" /\ spawned = Len(input)
  /\ closer' = "waiting"
  /\ rpc' = "collect"
  /\ UNCHANGED <<handler, stage, input, spawned, wst, wg, ch, closed, results, world, history>>

\* Faulty variant: the channel is closed without waiting for the workers.
WaitSkipped == TRUE

\* wg.Wait() returns when the counter is zero.
WaitReturns == wg = 0

Closer ==
  /\ closer = "waiting" /\ WaitReturns
  /\ closed' = TRUE
  /\ closer' = "done"
  /\ UNCHANGED <<handler, stage, input, spawned, wst, wg, ch, results, rpc, world, history>>

\* A worker's send on the buffered channel, then its function body ends.
Send(i, v) ==
  /\ Len(ch) < ChanCap /\ ~closed
  /\ ch' = Append(ch, v)
  /\ wst' = [wst EXCEPT ![i] = "sent"]

\* defer wg.Done()
WgDone(i) ==
  /\ wst[i] = "sent"
  /\ wst' = [wst EXCEPT ![i] = "done"]
  /\ wg' = wg - 1
  /\ UNCHANGED <<handler, stage, input, spawned, ch, closed, closer, results, rpc, world, history>>

\* What the collector loop keeps of a received value.
Keeps(st, v) ==
  CASE st \in {"load", "process", "encode"} -> ~IsNilImage(v)
    [] st \in {"upload", "uploadMulti"} -> TRUE
    [] st = "save" -> v.Error # Nil

\* for v := range ch { ... }: one receive.
Collect ==
  /\ rpc = "collect" /\ ch # <<>>
  /\ ch' = Tail(ch)
  /\ results' = IF Keeps(stage, Head(ch)) THEN Append(results, Head(ch)) ELSE results
  /\ UNCHANGED <<handler, stage, input, spawned, wst, wg, closed, closer, rpc, world, history>>

\* Faulty variant: the loop ends as soon as the channel holds nothing.
RangeEndsWhenEmpty == ch = <<>>

\* The range loop ends when the channel is closed and drained; the routine returns.
RangeEnds == ch = <<>> /\ closed

Return ==
  /\ rpc = "collect" /\ RangeEnds
  /\ rpc' = "returned"
  /\ UNCHANGED <<handler, stage, input, spawned, wst, wg, ch, closed, closer, results, world,
                 history>>


\* ------------------------------------------------------------ the workers
Fail(id, st) == fate' = [fate EXCEPT ![id] = st]

\* Times a clock read may return: the clock never runs backwards.
ClockReads == {now, now + 1}

\* go func(url){ img, err := loadImage(url); loadedImages <- (nil | img) }
\* loadImage: validateURL, then http.Get, the status and content-type checks,
\* image.Decode and the size check.
LoadWorker(i) ==
  /\ stage = "load" /\ wst[i] = "running"
  /\ \E dbFails \in BOOLEAN, o \in FetchOutcomes :
       LET it == input[i] IN
       IF validateURL(it.url, dbFails) # Nil
         THEN Send(i, NilImage) /\ Fail(it.id, "fetch") /\ UNCHANGED fetched
       ELSE /\ fetched' = fetched \cup {it.url}
            /\ IF o = "stall" /\ ~FetchHasDeadline
                 THEN wst' = [wst EXCEPT ![i] = "stalled"] /\ UNCHANGED <<ch, fate>>
               ELSE IF o = "ok"
                 THEN Send(i, Image(it.id, it.url, <<>>, FALSE)) /\ UNCHANGED fate
               ELSE Send(i, NilImage) /\ Fail(it.id, FetchStage(o))
  /\ UNCHANGED <<handler, stage, input, spawned, wg, closed, closer, results, rpc, world,
                 inserts, started>>

\* Faulty variant: the first filter of the pipeline is not applied.
processImageSkipsFirst(src, fs) == [src EXCEPT !.applied = Tail(fs)]

\* processImage draws the image through gift.New(filters...); it returns no error.
processImage(src, fs) == [src EXCEPT !.applied = fs]

\* go func(srcImg){ processedImg, err := processImage(srcImg, filters); ... }
ProcessWorker(i) ==
  /\ stage = "process" /\ wst[i] = "running"
  /\ Send(i, processImage(input[i], filters))
  /\ UNCHANGED <<handler, stage, input, spawned, wg, closed, closer, results, rpc, world, history>>

\* go func(srcImg){ reader, err := encodeImage(srcImg); ... }: jpeg.Encode may fail.
EncodeWorker(i) ==
  /\ stage = "encode" /\ wst[i] = "running"
  /\ \E ok \in BOOLEAN :
       IF ok THEN Send(i, [input[i] EXCEPT !.encoded = TRUE]) /\ UNCHANGED fate
       ELSE Send(i, NilImage) /\ Fail(input[i].id, "encode")
  /\ UNCHANGED <<handler, stage, input, spawned, wg, closed, closer, results, rpc, world,
                 fetched, inserts, started>>

\* Writing an object replaces what the path held.
Put(path, content) ==
  bucket' = {o \in bucket : o.path # path} \cup {[path |-> path, content |-> content]}

\* UploadProcessedFile / UploadFile: the object is written under
\* uploadPath + timestamp + "_" + object; the caller gets (url, object, nil) or
\* ("", "", err).  A stalled write ends as an error when the deadline fires.
UploaderCall(i, id, object, content, t, o) ==
  /\ now' = t
  /\ IF o = "stall" /\ ~UploadHasDeadline
       THEN wst' = [wst EXCEPT ![i] = "stalled"] /\ UNCHANGED <<ch, fate, bucket>>
     ELSE IF o = "ok"
       THEN /\ Put(URLOf(t, object), content)
            /\ Send(i, UploadResult(URLOf(t, object), object, Nil, id))
            /\ UNCHANGED fate
     ELSE /\ Send(i, UploadResult(EmptyURL, NoObject, "upload error", id))
          /\ Fail(id, "upload")
          /\ UNCHANGED bucket

\* go func(r, index){ filename := baseFilename_index.jpg;
\*                    uploader.UploadProcessedFile(r, filename); ... }
UploadWorker(i) ==
  /\ stage = "upload" /\ wst[i] = "running"
  /\ \E t \in ClockReads, o \in StoreOutcomes :
       UploaderCall(i, input[i].id, Object("processed_image", i - 1),
                    [url |-> input[i].url, applied |-> input[i].applied], t, o)
  /\ UNCHANGED <<handler, stage, input, spawned, wg, closed, closer, results, rpc, db, fetched,
                 inserts, started>>

\* go func(fh){ file, err := fh.Open(); ...; uploader.UploadFile(file, fh.Filename); ... }
MultiUploadWorker(i) ==
  /\ stage = "uploadMulti" /\ wst[i] = "running"
  /\ \E opens \in BOOLEAN, t \in ClockReads, o \in StoreOutcomes :
       IF ~opens
         THEN /\ Send(i, UploadResult(EmptyURL, Object(input[i].name, -1), "failed to open file",
                                      input[i].id))
              /\ Fail(input[i].id, "open")
              /\ UNCHANGED <<bucket, now>>
       ELSE UploaderCall(i, input[i].id, Object(input[i].name, -1),
                         [url |-> EmptyURL, applied |-> <<>>], t, o)
  /\ UNCHANGED <<handler, stage, input, spawned, wg, closed, closer, results, rpc, db, fetched,
                 inserts, started>>

\* uploadImageToDB: one insert into the images table.
uploadImageToDB(url, filename, userID, ok) ==
  IF ok THEN db' = db (+) SetToBag({Row(userID, filename, url)}) ELSE UNCHANGED db

\* Faulty variant: a failed insert deletes the item's object from the bucket.
SaveCallCompensates(i, ok) ==
  /\ uploadImageToDB(input[i].URL, input[i].Filename, userId, ok)
  /\ Send(i, SaveResult(IF ok THEN Nil ELSE "insert error", input[i].id))
  /\ inserts' = [inserts EXCEPT ![input[i].id] = @ + 1]
  /\ IF ok THEN UNCHANGED fate ELSE Fail(input[i].id, "record")
  /\ bucket' = IF ok THEN bucket ELSE {o \in bucket : o.path # input[i].URL}

\* go func(url, filename){ err := uploadImageToDB(url, filename, userId); saveErrors <- err }
\* The body of the worker: the insert, then the send of its error; an error is passed
\* on and nothing else is done about it.
SaveCall(i, ok) ==
  /\ uploadImageToDB(input[i].URL, input[i].Filename, userId, ok)
  /\ Send(i, SaveResult(IF ok THEN Nil ELSE "insert error", input[i].id))
  /\ inserts' = [inserts EXCEPT ![input[i].id] = @ + 1]
  /\ IF ok THEN UNCHANGED fate ELSE Fail(input[i].id, "record")
  /\ UNCHANGED bucket

SaveWorker(i) ==
  /\ stage = "save" /\ wst[i] = "running"
  /\ \E ok \in BOOLEAN : SaveCall(i, ok)
  /\ UNCHANGED <<handler, stage, input, spawned, wg, closed, closer, results, rpc, now, fetched,
                 started>>

\* ------------------------------------------------------------ the handlers
IdleFrame ==
  /\ stage' = "none" /\ input' = <<>> /\ spawned' = 0 /\ wst' = <<>> /\ wg' = 0 /\ ch' = <<>>
  /\ closed' = FALSE /\ closer' = "none" /\ results' = <<>> /\ rpc' = "none"

Respond(r) == response' = r /\ pc' = "done"

\* A handler is entered with fresh locals.
Enter(k) ==
  /\ pc = "idle"
  /\ kind' = k
  /\ filters' = <<>> /\ successfulUploads' = <<>> /\ uploadErrors' = <<>>
  /\ fetched' = {} /\ started' = {}
  /\ session.token # <<>>          \* AuthMiddleware passes no request without a token
  /\ UNCHANGED session

Indexed(s) == [i \in 1..Len(s) |-> [id |-> i, url |-> s[i]]]
IndexedFiles(s) == [i \in 1..Len(s) |-> [id |-> i, name |-> s[i]]]

NonEmpty(u) == u # EmptyURL
IsSuccess(r) == r.Error = Nil

\* Faulty variant: an empty list of sources is not rejected.
NoSourcesUnchecked(cleanImageUrls) == FALSE

\* if len(cleanImageUrls) == 0
NoSources(cleanImageUrls) == Len(cleanImageUrls) = 0

\* ApplyFilterToImage up to the call of routineLoadImages.
ApplyFilterToImage ==
  /\ Enter("filter")
  /\ \E body \in Bodies, q \in Queries :
       LET auth == CheckUserLoggedIn(session.token)
           cleanImageUrls == SelectSeq(body.urls, NonEmpty)
       IN /\ userId' = auth.userID
          /\ query' = q
          /\ IF auth.err # Nil
               THEN /\ Respond(Resp(401, "error", <<"Authentication required">>))
                    /\ total' = 0 /\ fate' = <<>> /\ inserts' = <<>> /\ IdleFrame
             ELSE IF ~body.ok
               THEN /\ Respond(Resp(400, "error", <<"Invalid request body">>))
                    /\ total' = 0 /\ fate' = <<>> /\ inserts' = <<>> /\ IdleFrame
             ELSE IF NoSources(cleanImageUrls)
               THEN /\ Respond(Resp(400, "error", <<"image_url is required">>))
                    /\ total' = 0 /\ fate' = <<>> /\ inserts' = <<>> /\ IdleFrame
             ELSE /\ total' = Len(cleanImageUrls)
                  /\ fate' = [i \in 1..Len(cleanImageUrls) |-> "ok"]
                  /\ inserts' = [i \in 1..Len(cleanImageUrls) |-> 0]
                  /\ StartRoutine("load", Indexed(cleanImageUrls))
                  /\ pc' = "wait"
                  /\ response' = NoResponse
  /\ UNCHANGED world

Returned(k, st) == kind = k /\ pc = "wait" /\ stage = st /\ rpc = "returned"

\* loadImgs := routineLoadImages(...) has returned; parseFilters(c.Queries()); then
\* routineProcessImages(loadImgs, filters) is called.
\* Faulty variant: one image that did not load rejects the batch.
SomeNotLoaded(loadImgs) == Len(loadImgs) < total

\* if len(loadImgs) == 0
NoneLoaded(loadImgs) == Len(loadImgs) = 0

AfterLoad ==
  /\ Returned("filter", "load")
  /\ IF NoneLoaded(results)
       THEN /\ Respond(Resp(400, "error", <<"Failed to load any images">>))
            /\ UNCHANGED <<filters, frame>>
     ELSE \E order \in Orders(DOMAIN query) :
            LET r == parseFilters(query, order) IN
            IF IsErr(r)
              THEN /\ Respond(Resp(400, "error", ErrorText(r.err)))
                   /\ UNCHANGED <<filters, frame>>
            ELSE /\ filters' = r.filters
                 /\ StartRoutine("process", results)
                 /\ UNCHANGED <<pc, response>>
  /\ UNCHANGED <<session, kind, total, userId, query, successfulUploads, uploadErrors, world, history>>

AfterProcess ==
  /\ Returned("filter", "process")
  /\ IF Len(results) = 0
       THEN /\ Respond(Resp(500, "error", <<"Failed to process any images">>))
            /\ UNCHANGED frame
     ELSE StartRoutine("encode", results) /\ UNCHANGED <<pc, response>>
  /\ UNCHANGED <<session, kind, total, userId, query, filters, successfulUploads, uploadErrors, world,
                 history>>

AfterEncode ==
  /\ Returned("filter", "encode")
  /\ IF Len(results) = 0
       THEN /\ Respond(Resp(500, "error", <<"Failed to encode any processed images">>))
            /\ UNCHANGED frame
     ELSE StartRoutine("upload", results) /\ UNCHANGED <<pc, response>>
  /\ UNCHANGED <<session, kind, total, userId, query, filters, successfulUploads, uploadErrors, world,
                 history>>

\* The successful results are kept; routineSaveImageRecords is called with them.
AfterUpload ==
  /\ Returned("filter", "upload")
  /\ successfulUploads' = SelectSeq(results, IsSuccess)
  /\ IF Len(successfulUploads') = 0
       THEN /\ Respond(Resp(500, "error", <<"Failed to upload any processed images">>))
            /\ UNCHANGED frame
     ELSE StartRoutine("save", successfulUploads') /\ UNCHANGED <<pc, response>>
  /\ UNCHANGED <<session, kind, total, userId, query, filters, uploadErrors, world, history>>

\* Faulty variant: the errors of the inserts are not looked at.
SaveFailedNever(saveErrors) == FALSE

\* if len(saveErrors) > 0
SaveFailed(saveErrors) == Len(saveErrors) > 0

DataEntry(r) == [url |-> r.URL, filename |-> r.Filename]

\* saveErrors decide between the 500 without data and the 200 with one entry per
\* successful upload.
AfterSave ==
  /\ Returned("filter", "save")
  /\ IF SaveFailed(results)
       THEN Respond(Resp(500, "error", <<"Failed to save some image records">>))
     ELSE Respond([Resp(200, "success", <<"Successfully processed", Len(successfulUploads)>>)
                    EXCEPT !.hasData = TRUE, !.data = [i \in 1..Len(successfulUploads) |-> DataEntry(successfulUploads[i])]])
  /\ UNCHANGED <<session, kind, total, userId, query, filters, successfulUploads, uploadErrors, frame,
                 world, history>>

\* if len(files) == 0
NoFiles(files) == Len(files) = 0

\* UploadMultipleImages up to the call of routineUploadMultipleImages.
UploadMultipleImages ==
  /\ Enter("multi")
  /\ \E form \in Forms :
       LET auth == CheckUserLoggedIn(session.token) IN
       /\ userId' = auth.userID
       /\ query' = <<>>
       /\ IF auth.err # Nil
            THEN /\ Respond(Resp(400, "error", <<"Unauthorized Request">>))
                 /\ total' = 0 /\ fate' = <<>> /\ inserts' = <<>> /\ IdleFrame
          ELSE IF ~form.ok
            THEN /\ Respond(Resp(400, "error", <<"Error parsing multipart form">>))
                 /\ total' = 0 /\ fate' = <<>> /\ inserts' = <<>> /\ IdleFrame
          ELSE IF NoFiles(form.files)
            THEN /\ Respond(Resp(400, "error", <<"No files provided">>))
                 /\ total' = 0 /\ fate' = <<>> /\ inserts' = <<>> /\ IdleFrame
          ELSE /\ total' = Len(form.files)
               /\ fate' = [i \in 1..Len(form.files) |-> "ok"]
               /\ inserts' = [i \in 1..Len(form.files) |-> 0]
               /\ StartRoutine("uploadMulti", IndexedFiles(form.files))
               /\ pc' = "wait"
               /\ response' = NoResponse
  /\ UNCHANGED world

UploadErrorEntry(r) == [text |-> "Error uploading", filename |-> r.Filename, cause |-> r.Error]
DatabaseErrorEntry(r) == [text |-> "Database error", filename |-> NoObject, cause |-> r.Error]

IsFailure(r) == r.Error # Nil
GetURL(r) == r.URL

\* The response of UploadMultipleImages, from its locals.
MultiResponse(successes, errs) ==
  LET data == [Resp(0, "", <<>>) EXCEPT !.hasData = TRUE,
                                        !.data = [i \in 1..Len(successes) |-> GetURL(successes[i])],
                                        !.success_count = Len(successes),
                                        !.total_count = total]
  IN IF Len(errs) > 0
       THEN [data EXCEPT !.code = 206, !.status = "partial_success",
                         !.message = <<"Uploaded", Len(successes), total>>,
                         !.hasErrors = TRUE, !.errors = errs]
     ELSE [data EXCEPT !.code = 200, !.status = "success",
                       !.message = <<"Successfully uploaded", Len(successes)>>]

\* The loop over uploadResults; with a success routineSaveImageRecords is called,
\* without one the handler goes on to the response.
MultiAfterUpload ==
  /\ Returned("multi", "uploadMulti")
  /\ successfulUploads' = SelectSeq(results, IsSuccess)
  /\ uploadErrors' = LET failed == SelectSeq(results, IsFailure)
                     IN [i \in 1..Len(failed) |-> UploadErrorEntry(failed[i])]
  /\ IF Len(successfulUploads') > 0
       THEN StartRoutine("save", successfulUploads') /\ UNCHANGED <<pc, response>>
     ELSE Respond(MultiResponse(successfulUploads', uploadErrors')) /\ UNCHANGED frame
  /\ UNCHANGED <<session, kind, total, userId, query, filters, world, history>>

MultiAfterSave ==
  /\ Returned("multi", "save")
  /\ uploadErrors' = uploadErrors \o [i \in 1..Len(results) |-> DatabaseErrorEntry(results[i])]
  /\ Respond(MultiResponse(successfulUploads, uploadErrors'))
  /\ UNCHANGED <<session, kind, total, userId, query, filters, successfulUploads, frame, world, history>>

\* ------------------------------------------------------------ specification
\* Two images were uploaded through UploadImage before the behaviour starts.
InitialRows ==
  {Row(7, Object("cat.jpg", -1), KnownURL), Row(7, Object("dog.jpg", -1), OtherKnownURL)}

Init ==
  /\ pc = "idle" /\ kind = "none" /\ total = 0 /\ userId = 0
  /\ session \in Sessions
  /\ query = <<>> /\ filters = <<>> /\ successfulUploads = <<>> /\ uploadErrors = <<>>
  /\ response = NoResponse
  /\ stage = "none" /\ input = <<>> /\ spawned = 0 /\ wst = <<>> /\ wg = 0 /\ ch = <<>>
  /\ closed = FALSE /\ closer = "none" /\ results = <<>> /\ rpc = "none"
  /\ db = SetToBag(InitialRows)
  /\ bucket = {[path |-> r.OriginalURL, content |-> [url |-> EmptyURL, applied |-> <<>>]] :
                 r \in InitialRows}
  /\ now = 0
  /\ fate = <<>> /\ fetched = {} /\ inserts = <<>> /\ started = {}

Next ==
  \/ ApplyFilterToImage
  \/ AfterLoad
  \/ AfterProcess
  \/ AfterEncode
  \/ AfterUpload
  \/ AfterSave
  \/ UploadMultipleImages
  \/ MultiAfterUpload
  \/ MultiAfterSave
  \/ Spawn
  \/ StartCloser
  \/ Closer
  \/ Collect
  \/ Return
  \/ \E i \in DOMAIN wst : LoadWorker(i)
  \/ \E i \in DOMAIN wst : ProcessWorker(i)
  \/ \E i \in DOMAIN wst : EncodeWorker(i)
  \/ \E i \in DOMAIN wst : UploadWorker(i)
  \/ \E i \in DOMAIN wst : MultiUploadWorker(i)
  \/ \E i \in DOMAIN wst : SaveWorker(i)
  \/ \E i \in DOMAIN wst : WgDone(i)

Spec == Init /\ [][Next]_vars

\* routineSaveImageRecords called on its own with any list of upload results, failed
\* ones included: result k stands for item k.
ResultOf(k, ok) ==
  IF ok THEN UploadResult(URLOf(1, Object("processed_image", k - 1)), Object("processed_image", k - 1), Nil, k)
  ELSE UploadResult(EmptyURL, NoObject, "upload error", k)

InitSave ==
  \E oks \in SeqsUpTo(BOOLEAN, MaxItems) :
    /\ pc = "call" /\ kind = "none" /\ total = Len(oks) /\ userId = 7
    /\ session = [user |-> 0, token |-> <<"7">>]
    /\ query = <<>> /\ filters = <<>> /\ successfulUploads = <<>> /\ uploadErrors = <<>>
    /\ response = NoResponse
    /\ stage = "save" /\ input = [k \in 1..Len(oks) |-> ResultOf(k, oks[k])]
    /\ spawned = 0 /\ wst = [k \in 1..Len(oks) |-> "none"] /\ wg = 0 /\ ch = <<>>
    /\ closed = FALSE /\ closer = "none" /\ results = <<>> /\ rpc = "loop"
    /\ db = SetToBag(InitialRows)
    /\ bucket = {[path |-> r.OriginalURL, content |-> [url |-> EmptyURL, applied |-> <<>>]] :
                   r \in InitialRows}
                \cup {[path |-> ResultOf(k, TRUE).URL, content |-> [url |-> KnownURL, applied |-> <<>>]] :
                        k \in {j \in 1..Len(oks) : oks[j]}}
    /\ now = 1
    /\ fate = [k \in 1..Len(oks) |-> IF oks[k] THEN "ok" ELSE "upload"]
    /\ inserts = [k \in 1..Len(oks) |-> 0]
    /\ fetched = {} /\ started = {}

SpecSave == (Init \/ InitSave) /\ [][Next]_vars

\* The server after an earlier ApplyFilterToImage request (?pixelate=5&invert=) on the
\* first known image: its processed image was written when the clock read 1, and its
\* record was inserted.  The next request is served from here.
EarlierObject == Object("processed_image", 0)
EarlierURL == URLOf(1, EarlierObject)
EarlierContent ==
  [url |-> KnownURL, applied |-> <<Gift("Pixelate", 5, 0, FALSE), Gift("Invert", 0, 0, FALSE)>>]

InitAgain ==
  /\ pc = "idle" /\ kind = "none" /\ total = 0 /\ userId = 0
  /\ session \in Sessions
  /\ query = <<>> /\ filters = <<>> /\ successfulUploads = <<>> /\ uploadErrors = <<>>
  /\ response = NoResponse
  /\ stage = "none" /\ input = <<>> /\ spawned = 0 /\ wst = <<>> /\ wg = 0 /\ ch = <<>>
  /\ closed = FALSE /\ closer = "none" /\ results = <<>> /\ rpc = "none"
  /\ db = SetToBag(InitialRows) (+) SetToBag({Row(7, EarlierObject, EarlierURL)})
  /\ bucket = {[path |-> r.OriginalURL, content |-> [url |-> EmptyURL, applied |-> <<>>]] :
                 r \in InitialRows}
              \cup {[path |-> EarlierURL, content |-> EarlierContent]}
  /\ now = 1
  /\ fate = <<>> /\ fetched = {} /\ inserts = <<>> /\ started = {}

SpecAgain == InitAgain /\ [][Next]_vars

\* parseFilters called on its own with any mapping of c.Queries(): every parameter
\* string over ParamChars up to MaxParamLen and the longer ones of LongParams, under
\* every supported key and two unknown ones, and mappings of up to MaxKeys keys.
ParamChars == {"0", "1", "5", "x", "-", ".", "N", "a"}

LongParams ==
  {<<"8", "0", "0", "x", "6", "0", "0">>,
   <<"8", "0", "0">>,
   <<"5", "0", "0", "0", "x", "1", "0", "0">>,
   <<"1", "0", "0", "x", "5", "0", "0", "0">>,
   <<"4", "0", "0", "0", "x", "4", "0", "0", "0">>,
   <<"4", "0", "0", "1", "x", "4", "0", "0", "0">>,
   <<"4", "0", "0", "0", "x", "4", "0", "0", "1">>,
   <<"1", "x", "2", "x", "3">>,
   <<"+", "8", "x", "-", "0">>,
   <<"5", "0">>,
   <<"5", "1">>,
   <<"1", "0", "0">>,
   <<"2", "0", "0">>,
   <<"3", "6", "0">>,
   <<"-", "3", "6", "0">>,
   <<"-", "3", "6", "1">>,
   <<"1", "0", "0", ".", "0", "0", "1">>,
   <<"2", "0", "0", ".", "0", "0", "1">>,
   <<"3", "6", "0", ".", "0", "0", "1">>,
   <<"-", "3", "6", "0", ".", "0", "0", "1">>,
   <<"5", "0", ".", "0", "0", "1">>,
   <<"0", ".", "0", "9", "9">>,
   <<"9", "9", ".", "9", "9", "9">>,
   <<"n", "a", "n">>}

Params == SeqsUpTo(ParamChars, MaxParamLen) \cup LongParams

UnknownKeys == {"format", "quality"}
MultiKeys ==
  {"resize", "pixelate", "invert", "brightness_increase", "brightness_decrease"} \cup UnknownKeys

SmallParams ==
  {<<>>,
   <<"5">>,
   <<"5", "1">>,
   <<"8", "0", "0", "x", "6", "0", "0">>,
   <<"8", "0", "0">>}

ParseQueries ==
  UNION {[{k} -> Params] : k \in supportedFilters \cup UnknownKeys}
  \cup UNION {[S -> SmallParams] : S \in {K \in SUBSET MultiKeys : Cardinality(K) <= MaxKeys}}

InitParse ==
  /\ pc = "parse" /\ kind = "none" /\ total = 0 /\ userId = 0
  /\ session = NoSession
  /\ query \in ParseQueries
  /\ filters = <<>> /\ successfulUploads = <<>> /\ uploadErrors = <<>>
  /\ response = NoResponse
  /\ stage = "none" /\ input = <<>> /\ spawned = 0 /\ wst = <<>> /\ wg = 0 /\ ch = <<>>
  /\ closed = FALSE /\ closer = "none" /\ results = <<>> /\ rpc = "none"
  /\ db = SetToBag(InitialRows)
  /\ bucket = {[path |-> r.OriginalURL, content |-> [url |-> EmptyURL, applied |-> <<>>]] :
                 r \in InitialRows}
  /\ now = 0
  /\ fate = <<>> /\ fetched = {} /\ inserts = <<>> /\ started = {}

\* filters, err := parseFilters(queryParams): the returned pair is kept in `filters`.
ParseFiltersCall ==
  /\ pc = "parse"
  /\ \E order \in Orders(DOMAIN query) : filters' = parseFilters(query, order)
  /\ pc' = "parsed"
  /\ UNCHANGED <<session, kind, total, userId, query, successfulUploads, uploadErrors, response, frame,
                 world, history>>

NextParse == ParseFiltersCall

SpecParse == InitParse /\ [][NextParse]_vars

\* ------------------------------------------------------------ login
\* The user records Login may find, by their ID.
UserIDs == 1..MaxUserID

\* How a call of Login ends: the body does not parse, the lookup fails, no user has
\* the identity, the password does not match, the token cannot be signed, or the
\* token is issued and set as the JWT cookie.
LoginOutcomes == {"bad body", "database error", "no user", "bad password", "token error", "ok"}

LoginResponse(o) ==
  CASE o = "bad body" -> Resp(400, "error", <<"Invalid request body">>)
    [] o = "database error" -> Resp(500, "error", <<"Database error">>)
    [] o \in {"no user", "bad password"} -> Resp(401, "error", <<"Invalid identity or password">>)
    [] o = "token error" -> Resp(500, "error", <<"Failed to generate token">>)
    [] OTHER -> [Resp(200, "success", <<"Login successful">>) EXCEPT !.hasData = TRUE]

\* Login: on success the client holds the token whose user ID Login built from the
\* record found.
Login ==
  /\ pc = "login"
  /\ \E o \in LoginOutcomes, id \in UserIDs :
       /\ response' = LoginResponse(o)
       /\ session' = IF o = "ok" THEN [user |-> id, token |-> LoginTokenID(id)] ELSE session
  /\ pc' = "idle"
  /\ UNCHANGED <<kind, total, userId, query, filters, successfulUploads, uploadErrors, frame,
                 world, history>>

InitLogin ==
  /\ pc = "login" /\ kind = "none" /\ total = 0 /\ userId = 0
  /\ session = NoSession
  /\ query = <<>> /\ filters = <<>> /\ successfulUploads = <<>> /\ uploadErrors = <<>>
  /\ response = NoResponse
  /\ stage = "none" /\ input = <<>> /\ spawned = 0 /\ wst = <<>> /\ wg = 0 /\ ch = <<>>
  /\ closed = FALSE /\ closer = "none" /\ results = <<>> /\ rpc = "none"
  /\ db = SetToBag(InitialRows)
  /\ bucket = {[path |-> r.OriginalURL, content |-> [url |-> EmptyURL, applied |-> <<>>]] :
                 r \in InitialRows}
  /\ now = 0
  /\ fate = <<>> /\ fetched = {} /\ inserts = <<>> /\ started = {}

\* A login, then a request to ApplyFilterToImage or UploadMultipleImages with the
\* cookie of the login.
NextLogin == Login \/ ApplyFilterToImage \/ UploadMultipleImages

SpecLogin == InitLogin /\ [][NextLogin]_vars

\* ------------------------------------------------------------ properties
Done == pc = "done"
Items == 1..total
SaveReturned == stage = "save" /\ rpc = "returned"
HasRow(url) == \E r \in BagToSet(db) : r.OriginalURL = url

\* The handler answered with the error of parseFilters.
ParseFailed ==
  /\ Done /\ kind = "filter" /\ response.code = 400
  /\ \E o \in Orders(DOMAIN query) :
       /\ IsErr(parseFilters(query, o))
       /\ response.message = ErrorText(parseFilters(query, o).err)

\* Item i was uploaded and its insert was attempted once.
Carried(i) == inserts[i] = 1 /\ \E k \in 1..Len(successfulUploads) : successfulUploads[k].id = i

\* The response lists item i among its successes.
Reported(i) ==
  /\ response.hasData
  /\ \E k \in 1..Len(successfulUploads) :
       /\ successfulUploads[k].id = i
       /\ \E m \in 1..Len(response.data) :
            response.data[m] = IF kind = "filter" THEN DataEntry(successfulUploads[k])
                               ELSE successfulUploads[k].URL

\* C1: in every routine the result list is returned only after every worker that was
\* spawned has finished and the closer has closed the channel; no worker is still
\* running when the routine returns.
C1_JoinWaitsForAllWorkers ==
  rpc = "returned" =>
    /\ closer = "done" /\ closed /\ wg = 0 /\ spawned = Len(input)
    /\ \A i \in DOMAIN wst : wst[i] \in {"none", "done"}
    /\ \A i \in DOMAIN wst : SpawnsWorker(stage, input[i]) => wst[i] = "done"

C1_Witness ==
  /\ rpc = "returned" /\ stage = "save" /\ kind = "filter" /\ Len(input) = MaxItems
  /\ \A i \in DOMAIN wst : wst[i] = "done"

\* C2: when a batch has passed its validation, an item that does not fail itself is
\* carried through every remaining stage whatever happens to its siblings at fetch,
\* decode, filter, encode or upload: it is uploaded, its record is inserted, and
\* unless some record insert failed it is listed among the successes of the response.
C2_FailureIsolation ==
  (Done /\ kind \in {"filter", "multi"} /\ ~ParseFailed) =>
    \A i \in Items :
      fate[i] = "ok" =>
        /\ Carried(i)
        /\ (\A j \in Items : fate[j] # "record") => Reported(i)

C2_Witness ==
  /\ Done /\ kind = "filter" /\ response.code = 200
  /\ \E i, j \in Items : fate[i] \in {"fetch", "decode", "encode", "upload"} /\ fate[j] = "ok" /\ Reported(j)

\* C3: when parseFilters fails the batch is aborted before any worker was spawned.
C3_NoWorkerBeforeValidation == ParseFailed => started = {}

\* C4: a filter batch of N sources of which the subset F fails at fetch and the rest
\* succeed answers with N - |F| successes and |F| failures, each with its reason.
C4_EveryFailureReported ==
  (Done /\ kind = "filter" /\ ~ParseFailed /\ total > 0
        /\ \A i \in Items : fate[i] \in {"ok", "fetch"}) =>
    LET F == {i \in Items : fate[i] = "fetch"} IN
    /\ Len(response.data) = total - Cardinality(F)
    /\ Len(response.errors) = Cardinality(F)
    /\ \A m \in 1..Len(response.errors) : response.errors[m].cause # Nil

\* C5: in the outcome of a completed batch the successes and the failures add up to
\* the number of items.
C5_CountsAddUp ==
  (Done /\ response.code \in {200, 206}) => Len(response.data) + Len(response.errors) = total

\* C6: routineSaveImageRecords attempts exactly one insert for each upload result
\* without an error and none for a result with an error; an item that failed at any
\* stage has no record, and the table holds exactly the rows of the inserts that
\* succeeded.
C6_OneInsertPerSuccess ==
  /\ SaveReturned =>
       \A k \in 1..Len(input) : inserts[input[k].id] = IF input[k].Error = Nil THEN 1 ELSE 0
  /\ \A i \in DOMAIN fate : fate[i] \notin {"ok", "record"} => inserts[i] = 0
  /\ \A i \in DOMAIN inserts : inserts[i] <= 1
  /\ BagCardinality(db) =
       Cardinality(InitialRows) + Cardinality({i \in DOMAIN inserts : inserts[i] = 1 /\ fate[i] = "ok"})

C6_Witness ==
  /\ pc = "call" /\ SaveReturned /\ Len(input) = MaxItems
  /\ \E i, j \in DOMAIN input :
       /\ input[i].Error # Nil /\ inserts[i] = 0
       /\ input[j].Error = Nil /\ inserts[j] = 1 /\ HasRow(input[j].URL)

\* C7: every fetch and every upload is bounded by a deadline, so a batch never stays
\* blocked on a network call: until the handler has answered, some step is possible.
C7_NoCallBlocksTheBatch == pc \in {"idle", "done", "call"} \/ ENABLED Next

\* C8: an image is fetched only when the table has a record for exactly its URL; a
\* URL without a record fails its item without a fetch.
C8_KnownImageGuard ==
  /\ \A u \in fetched : HasRow(u)
  /\ stage = "load" =>
       \A i \in DOMAIN wst :
         (wst[i] \in {"sent", "done"} /\ ~HasRow(input[i].url)) =>
           fate[input[i].id] = "fetch" /\ input[i].url \notin fetched

C8_Witness ==
  /\ stage = "load" /\ rpc = "returned" /\ KnownURL \in fetched
  /\ \E i \in DOMAIN wst : input[i].url = ForeignURL /\ fate[input[i].id] = "fetch"

\* C9: when the insert of one uploaded item fails, the other uploaded items are still
\* listed in the response.
C9_OtherEntriesKept ==
  Done => \A i, j \in Items : (fate[i] = "record" /\ fate[j] = "ok") => Reported(j)

\* C10: the save stage never changes the bucket and never removes a row, also when an
\* insert fails; when the routine returns, every other item's insert has been made
\* and, where it succeeded, its row is in the table.
C10_InsertFailureIsLocal ==
  /\ [][stage = "save" => (bucket' = bucket /\ \A r \in BagToSet(db) : CopiesIn(r, db) <= CopiesIn(r, db'))]_vars
  /\ [](SaveReturned /\ pc = "wait" =>
          \A k \in 1..Len(input) :
            /\ inserts[input[k].id] = 1
            /\ \E o \in bucket : o.path = input[k].URL
            /\ fate[input[k].id] = "ok" => Row(userId, input[k].Filename, input[k].URL) \in BagToSet(db))

C10_Witness ==
  /\ SaveReturned /\ pc = "wait"
  /\ \E i, j \in DOMAIN input :
       /\ fate[input[i].id] = "record" /\ \E o \in bucket : o.path = input[i].URL
       /\ fate[input[j].id] = "ok" /\ HasRow(input[j].URL)

\* C11: two successful uploads of processed images, of one batch or of two requests
\* on the same source, are written under distinct object names and return distinct
\* stored names, and each has a record of its own.
C11_StoredNamesUnique ==
  (kind = "filter" /\ stage = "save") =>
    /\ \A k \in 1..Len(successfulUploads) :
         /\ successfulUploads[k].URL # EarlierURL
         /\ successfulUploads[k].Filename # EarlierObject
    /\ \A k, l \in 1..Len(successfulUploads) :
         k # l => /\ successfulUploads[k].URL # successfulUploads[l].URL
                  /\ successfulUploads[k].Filename # successfulUploads[l].Filename
    /\ (Done /\ response.code = 200) =>
         \A k \in 1..Len(successfulUploads) :
           CopiesIn(Row(userId, successfulUploads[k].Filename, successfulUploads[k].URL), db) = 1

\* C12: the outcome tells total success, partial success and total failure apart: a
\* batch without a success is never reported as a partial success, and a batch with
\* a failure is never reported as a total success.
C12_OutcomeClasses ==
  (Done /\ total > 0 /\ ~ParseFailed) =>
    /\ response.status = "partial_success" => \E i \in Items : fate[i] \in {"ok", "record"}
    /\ response.status = "success" => \A i \in Items : fate[i] = "ok"

\* C13: a batch without sources is rejected with an error and no routine is entered
\* for it: no worker is started, nothing is fetched, and the table and the bucket
\* stay as they were.
C13_EmptyBatchRejected ==
  total = 0 =>
    /\ stage = "none" /\ rpc = "none" /\ wst = <<>>
    /\ started = {} /\ fetched = {}
    /\ db = SetToBag(InitialRows) /\ Cardinality(bucket) = Cardinality(InitialRows)
    /\ Done => response.status = "error" /\ ~response.hasData

C13_Witness ==
  /\ Done /\ kind = "filter" /\ total = 0 /\ response.code = 400
  /\ response.message = <<"image_url is required">>

\* C14: no item waits for a sibling: whenever an item has finished a stage before the
\* upload without failing and a sibling is still running in that stage, some step
\* other than the sibling's is possible.
C14_NoWaitForSiblings ==
  (kind = "filter" /\ pc = "wait" /\ stage \in {"load", "process", "encode"}) =>
    \A i, j \in DOMAIN wst :
      (i # j /\ wst[i] = "done" /\ fate[input[i].id] = "ok" /\ wst[j] = "running") =>
        ENABLED (Next /\ j \in DOMAIN wst' /\ wst'[j] = wst[j])

\* The mapping holds the one key k; parseFilters has returned.
ParsedOnly(k) == pc = "parsed" /\ DOMAIN query = {k}
Accepted == ~IsErr(filters)
NoValidFilters == Err(FilterError("", <<"no valid filters specified">>))

\* The mapping restricted to the supported filter names.
Restricted(q) == [k \in DOMAIN q \cap supportedFilters |-> q[k]]

\* What parseFilters may return for the mapping, over the orders of the range.
ResultsOf(q) == {parseFilters(q, o) : o \in Orders(DOMAIN q)}

\* C15: parseFilters ignores unknown keys: what it returns for a mapping is what it
\* may return for the mapping restricted to the supported names, and the other way
\* round; an error never names an unknown key.
C15_UnknownKeysIgnored ==
  pc = "parsed" =>
    /\ filters \in ResultsOf(Restricted(query))
    /\ ResultsOf(Restricted(query)) \subseteq ResultsOf(query)
    /\ IsErr(filters) => filters.err.FilterName \in supportedFilters \cup {""}

C15_Witness ==
  /\ pc = "parsed" /\ DOMAIN query = {"format", "pixelate"} /\ Accepted
  /\ Len(filters.filters) = 1

\* C16: parseFilters fails with "no valid filters specified" exactly when the mapping
\* has no supported filter name, and a returned pipeline is never empty.
C16_NoValidFilters ==
  pc = "parsed" =>
    /\ filters = NoValidFilters <=> DOMAIN query \cap supportedFilters = {}
    /\ Accepted => Len(filters.filters) > 0

C16_Witness ==
  pc = "parsed" /\ DOMAIN query = UnknownKeys /\ filters = NoValidFilters

\* The constraints on a parameter, stated on the string itself.
IsInt(s) == Unsigned(s) # <<>> /\ AllDigits(Unsigned(s))
IntOf(s) == SignOf(s) * DecVal(Unsigned(s))
Separators(s) == {i \in 1..Len(s) : s[i] = "x"}
WidthOf(s) == SubSeq(s, 1, (CHOOSE i \in Separators(s) : TRUE) - 1)
HeightOf(s) == SubSeq(s, (CHOOSE i \in Separators(s) : TRUE) + 1, Len(s))

ValidDimensions(s) ==
  /\ Cardinality(Separators(s)) = 1
  /\ IsInt(WidthOf(s)) /\ IntOf(WidthOf(s)) >= 0 /\ IntOf(WidthOf(s)) <= 4000
  /\ IsInt(HeightOf(s)) /\ IntOf(HeightOf(s)) >= 0 /\ IntOf(HeightOf(s)) <= 4000

ValidPixelate(s) == IsInt(s) /\ IntOf(s) >= 0 /\ IntOf(s) <= 50

\* The closed range of a float-valued filter, in thousandths.
RangeLow(k) == CASE k = "rotate" -> -360000 [] k = "gaussian_blur" -> 100 [] OTHER -> 0
RangeHigh(k) ==
  CASE k = "rotate" -> 360000
    [] k = "gaussian_blur" -> 50000
    [] k \in {"saturation_increase", "saturation_decrease"} -> 200000
    [] OTHER -> 100000

ValidFloat(k, s) ==
  /\ ParseFloat(s).ok /\ ~ParseFloat(s).nan
  /\ RangeLow(k) <= ParseFloat(s).milli /\ ParseFloat(s).milli <= RangeHigh(k)

ValidParam(k, s) ==
  CASE k \in {"resize", "crop_to_size"} -> ValidDimensions(s)
    [] k = "pixelate" -> ValidPixelate(s)
    [] k \in {"grayscale", "invert"} -> TRUE
    [] OTHER -> ValidFloat(k, s)

InvalidKeys(q) == {k \in DOMAIN q \cap supportedFilters : ~ValidParam(k, q[k])}

\* C17: when a supported filter name of the mapping has an invalid parameter,
\* parseFilters returns no pipeline, whatever the order of the range, and the error is
\* a FilterError naming a filter with an invalid parameter and the constraint.
C17_InvalidParameterAborts ==
  (pc = "parsed" /\ InvalidKeys(query) # {}) =>
    /\ IsErr(filters)
    /\ filters.err.FilterName \in InvalidKeys(query)
    /\ filters.err.Message # <<>>

\* C18: resize and crop_to_size accept a parameter exactly when it is
\* <width>x<height> with one separator and two non-negative integers up to 4000:
\* "800x600" succeeds, "800" is malformed, "5000x100" is too large.
C18_Dimensions ==
  \A k \in {"resize", "crop_to_size"} :
    ParsedOnly(k) =>
      /\ Accepted <=> ValidDimensions(query[k])
      /\ query[k] = <<"8", "0", "0", "x", "6", "0", "0">> => Accepted /\ filters.filters[1].a = 800 /\ filters.filters[1].b = 600
      /\ query[k] = <<"8", "0", "0">> =>
           filters = Err(FilterError(k, <<"dimensions must be in format 'widthxheight'">>))
      /\ query[k] = <<"5", "0", "0", "0", "x", "1", "0", "0">> => filters = Err(FilterError(k, <<"dimensions too large">>))

C18_Witness ==
  /\ ParsedOnly("resize") /\ query["resize"] = <<"4", "0", "0", "0", "x", "4", "0", "0", "0">>
  /\ Accepted /\ filters.filters = <<Gift("Resize", 4000, 4000, FALSE)>>

C20_FloatRanges ==
  \A k \in FloatFilters : ParsedOnly(k) => (Accepted <=> ValidFloat(k, query[k]))

\* The three adjustments that have an _increase and a _decrease key.
Adjustments == {"brightness", "contrast", "saturation"}
IncreaseKey(x) ==
  CASE x = "brightness" -> "brightness_increase"
    [] x = "contrast" -> "contrast_increase"
    [] OTHER -> "saturation_increase"
DecreaseKey(x) ==
  CASE x = "brightness" -> "brightness_decrease"
    [] x = "contrast" -> "contrast_decrease"
    [] OTHER -> "saturation_decrease"
AdjustmentOp(x) ==
  CASE x = "brightness" -> "Brightness" [] x = "contrast" -> "Contrast" [] OTHER -> "Saturation"

\* C21: for brightness, contrast and saturation and every valid magnitude v, the
\* _increase key builds the adjustment with +v and the _decrease key builds the same
\* adjustment with -v, and the two keys accept exactly the same parameters.
C21_DecreaseNegates ==
  \A x \in Adjustments :
    /\ (ParsedOnly(IncreaseKey(x)) /\ ValidFloat(IncreaseKey(x), query[IncreaseKey(x)])) =>
         filters = [filters |->
                      <<Gift(AdjustmentOp(x), ParseFloat(query[IncreaseKey(x)]).milli, 0, FALSE)>>]
    /\ (ParsedOnly(DecreaseKey(x)) /\ ValidFloat(DecreaseKey(x), query[DecreaseKey(x)])) =>
         filters = [filters |->
                      <<Gift(AdjustmentOp(x), 0 - ParseFloat(query[DecreaseKey(x)]).milli, 0, FALSE)>>]
    /\ ParsedOnly(IncreaseKey(x)) =>
         (Accepted <=> ~IsErr(createFilter(DecreaseKey(x), query[IncreaseKey(x)])))
    /\ ParsedOnly(DecreaseKey(x)) =>
         (Accepted <=> ~IsErr(createFilter(IncreaseKey(x), query[DecreaseKey(x)])))

C21_Witness ==
  /\ ParsedOnly("contrast_decrease") /\ query["contrast_decrease"] = <<"1", ".", "5">>
  /\ filters = [filters |-> <<Gift("Contrast", -1500, 0, FALSE)>>]

\* The supported filter names of the mapping.
SupportedKeys(q) == DOMAIN q \cap supportedFilters

\* C22: when the mapping has supported keys and each of them has a valid parameter,
\* parseFilters returns a pipeline with exactly one filter per supported key, the
\* filter createFilter builds for it; a mapping with both X_increase and X_decrease
\* gives two filters of the adjustment, one with +v and one with -v.
C22_OneFilterPerKey ==
  (pc = "parsed" /\ SupportedKeys(query) # {} /\ InvalidKeys(query) = {}) =>
    /\ Accepted
    /\ Len(filters.filters) = Cardinality(SupportedKeys(query))
    /\ \A k \in SupportedKeys(query) :
         \E i \in 1..Len(filters.filters) : filters.filters[i] = createFilter(k, query[k]).filter
    /\ \A x \in Adjustments :
         {IncreaseKey(x), DecreaseKey(x)} \subseteq DOMAIN query =>
           \E i, j \in 1..Len(filters.filters) :
             /\ i # j
             /\ filters.filters[i] =
                  Gift(AdjustmentOp(x), ParseFloat(query[IncreaseKey(x)]).milli, 0, FALSE)
             /\ filters.filters[j] =
                  Gift(AdjustmentOp(x), 0 - ParseFloat(query[DecreaseKey(x)]).milli, 0, FALSE)

C22_Witness ==
  /\ pc = "parsed" /\ DOMAIN query = {"brightness_increase", "brightness_decrease"}
  /\ query["brightness_increase"] = <<"5">> /\ query["brightness_decrease"] = <<"5">>
  /\ Accepted /\ Len(filters.filters) = 2

\* The images at hand in the running stage: in flight, collected, or given as input.
ImagesAtHand ==
  CASE stage = "process" -> {ch[k] : k \in DOMAIN ch} \cup {results[k] : k \in DOMAIN results}
    [] stage \in {"encode", "upload"} -> {input[k] : k \in DOMAIN input}
    [] OTHER -> {}

\* C23: the pipeline parseFilters resolved for the batch is the one applied to every
\* item: every processed image of the batch, and every object uploaded for it, carries
\* exactly the filter sequence held by the handler, in the same order, until the
\* response.
C23_OnePipelinePerBatch ==
  kind = "filter" =>
    /\ \A img \in ImagesAtHand : IsNilImage(img) \/ img.applied = filters
    /\ \A k \in DOMAIN successfulUploads :
         \A o \in bucket : o.path = successfulUploads[k].URL => o.content.applied = filters

C23_Witness ==
  /\ kind = "filter" /\ stage = "upload" /\ Len(input) = 2 /\ Len(filters) = 2
  /\ input[1].applied = filters /\ input[2].applied = filters
  /\ wst[1] = "done" /\ wst[2] = "running"

\* The failures an item can have met before the stage st begins.
FailedBefore(st) ==
  CASE st \in {"process", "encode"} -> {"fetch", "decode"}
    [] st = "upload" -> {"fetch", "decode", "encode"}
    [] st = "save" -> {"fetch", "decode", "encode", "upload", "open"}
    [] OTHER -> {}

\* C24: an item that failed at a stage never enters a later stage: every worker of a
\* routine works on an item of the batch that failed at no earlier stage; an item
\* whose fetch, decode or encode failed is in no upload result, an item whose upload
\* failed is not a successful upload, and neither has an insert.
C24_StageShortCircuit ==
  /\ \A k \in DOMAIN wst :
       wst[k] # "none" => input[k].id \in Items /\ fate[input[k].id] \notin FailedBefore(stage)
  /\ \A i \in DOMAIN fate :
       /\ fate[i] \in {"fetch", "decode", "encode"} =>
            /\ inserts[i] = 0
            /\ stage = "upload" => \A k \in DOMAIN input : input[k].id # i
            /\ \A k \in DOMAIN successfulUploads : successfulUploads[k].id # i
       /\ fate[i] \in {"upload", "open"} =>
            /\ inserts[i] = 0
            /\ \A k \in DOMAIN successfulUploads : successfulUploads[k].id # i

C24_Witness ==
  /\ kind = "filter" /\ total = 2 /\ stage = "save" /\ Len(input) = 1 /\ wst = <<"done">>
  /\ fate[1] = "ok" /\ fate[2] = "fetch" /\ inserts = <<1, 0>>

\* C25: filter resolution is deterministic: whatever parseFilters returned for a
\* mapping is the only thing it can return for that mapping, so resolving the mapping
\* again gives the same filters in the same order.
C25_Deterministic ==
  pc = "parsed" => ResultsOf(query) = {filters}

\* The workers that have sent, and whether the collector keeps what worker k sent.
Senders == {k \in DOMAIN wst : wst[k] \in {"sent", "done"}}
KeptOf(k) ==
  CASE stage = "load" -> fate[input[k].id] \notin {"fetch", "decode"}
    [] stage = "encode" -> fate[input[k].id] # "encode"
    [] stage = "save" -> fate[input[k].id] = "record"
    [] OTHER -> TRUE

\* C26: exactly-once collection in every routine: the values in the channel and
\* collected never exceed the workers that have sent, one value each; the channel is
\* closed by the one closer, and only when no worker has a send ahead; when the routine
\* returns every started worker has sent, the channel is drained, and the collector
\* has kept the value of every worker whose value it keeps; the upload routines return
\* exactly one entry per input.
C26_ExactlyOnceCollection ==
  stage # "none" =>
    /\ Len(ch) + Len(results) <= Cardinality(Senders)
    /\ stage \in {"upload", "uploadMulti"} => Len(ch) + Len(results) = Cardinality(Senders)
    /\ closed <=> closer = "done"
    /\ closed => \A k \in DOMAIN wst : wst[k] \in {"none", "done"}
    /\ rpc = "returned" =>
         /\ closed /\ ch = <<>>
         /\ \A k \in DOMAIN wst : wst[k] = "done" <=> SpawnsWorker(stage, input[k])
         /\ Len(results) = Cardinality({k \in Senders : KeptOf(k)})
         /\ stage \in {"upload", "uploadMulti"} =>
              /\ Len(results) = Len(input)
              /\ \A k \in DOMAIN input : \E j \in DOMAIN results : results[j].id = input[k].id

C26_Witness ==
  /\ stage = "upload" /\ rpc = "returned" /\ Len(input) = 2 /\ Len(results) = 2
  /\ results[1].id = input[2].id /\ results[2].id = input[1].id

\* Every external call made so far has returned.
CallsReturn == \A k \in DOMAIN wst : wst[k] # "stalled"

\* C27: the fan-in cannot deadlock: the channel always has room for the send of every
\* worker still running, and while every external call returns a routine that has
\* not returned can take a step, also when it starts no worker or has no input.
C27_FanInNeverDeadlocks ==
  /\ Cardinality({k \in DOMAIN wst : wst[k] = "running"}) + Len(ch) <= ChanCap
  /\ (CallsReturn /\ rpc \in {"loop", "collect"}) => ENABLED Next

C27_Witness ==
  /\ pc = "call" /\ stage = "save" /\ rpc = "returned" /\ Len(input) = 2
  /\ input[1].Error # Nil /\ input[2].Error # Nil
  /\ wst = <<"none", "none">> /\ closed /\ results = <<>>

\* The mapping of the request is one parseFilters rejects: it has no supported key, or
\* a supported key with an invalid parameter.
QueryRejected == kind = "filter" /\ (SupportedKeys(query) = {} \/ InvalidKeys(query) # {})

\* C28: a request of ApplyFilterToImage whose mapping parseFilters rejects leaves
\* the object store and the table as they were: nothing is uploaded and no record is
\* inserted, in any state of the request and when it has answered with the error of
\* parseFilters, whatever was fetched before.
C28_ParseFailureChangesNothing ==
  (ParseFailed \/ QueryRejected) =>
    /\ db = SetToBag(InitialRows)
    /\ bucket = {[path |-> r.OriginalURL, content |-> [url |-> EmptyURL, applied |-> <<>>]] :
                   r \in InitialRows}
    /\ \A i \in DOMAIN inserts : inserts[i] = 0
    /\ started \cap {"process", "encode", "upload", "save"} = {}

C28_Witness ==
  /\ ParseFailed /\ total = 2 /\ fetched # {} /\ DOMAIN query = {"resize"}
  /\ response.message = <<"filter", "resize", "dimensions must be in format 'widthxheight'">>
  /\ db = SetToBag(InitialRows)

\* The record of the upload result r is in the table; its object is in the bucket.
Recorded(r) == Row(userId, r.Filename, r.URL) \in BagToSet(db)
Stored(r) == \E o \in bucket : o.path = r.URL

\* C29: ApplyFilterToImage answers 200 only after routineSaveImageRecords, when the
\* record of every successful upload has been inserted without error, and the data
\* then has exactly one url/filename entry per successful upload, in their order; if
\* an insert failed the answer is the 500 error without data, while the objects of all
\* successful uploads and the records of the other items exist.
C29_SuccessNeedsEveryRecord ==
  (Done /\ kind = "filter") =>
    /\ response.code = 200 =>
         /\ stage = "save" /\ successfulUploads # <<>>
         /\ \A k \in DOMAIN successfulUploads :
              /\ fate[successfulUploads[k].id] = "ok" /\ inserts[successfulUploads[k].id] = 1
              /\ Recorded(successfulUploads[k])
         /\ response.status = "success" /\ response.hasData
         /\ response.data = [k \in DOMAIN successfulUploads |->
                               [url |-> successfulUploads[k].URL,
                                filename |-> successfulUploads[k].Filename]]
    /\ (\E i \in Items : fate[i] = "record") =>
         /\ response.code = 500 /\ response.status = "error" /\ ~response.hasData
         /\ response.data = <<>>
         /\ \A k \in DOMAIN successfulUploads :
              /\ Stored(successfulUploads[k])
              /\ fate[successfulUploads[k].id] = "ok" => Recorded(successfulUploads[k])

C29_Witness ==
  /\ Done /\ kind = "filter" /\ response.code = 500 /\ Len(successfulUploads) = 2
  /\ fate[successfulUploads[1].id] = "record" /\ fate[successfulUploads[2].id] = "ok"
  /\ Stored(successfulUploads[1]) /\ ~Recorded(successfulUploads[1])
  /\ Recorded(successfulUploads[2])

\* C30: the token user ID Login writes is accepted by CheckUserLoggedIn and parses
\* back to the ID of the user record: a request made with the token of a login is
\* not answered with the authentication error and runs under that user's ID.
C30_LoginRoundTrip ==
  session.user # 0 =>
    /\ CheckUserLoggedIn(session.token) = [userID |-> session.user, err |-> Nil]
    /\ Done => /\ response # Resp(401, "error", <<"Authentication required">>)
               /\ response # Resp(400, "error", <<"Unauthorized Request">>)
               /\ userId = session.user

====
